---- MODULE Spec2Model ----
(***************************************************************************)
(* Model of rust-analyzer/editors/code/src/net.ts: fetchRelease, download, *)
(* downloadFile, withTempDir and moveFile, as one state machine.           *)
(*                                                                         *)
(* One caller issues either fetchRelease(tag) or download(opts).  The      *)
(* environment (HTTP server, network, file system, stream implementation)  *)
(* is nondeterministic: every await of the source is a point where the     *)
(* awaited promise may resolve or reject.  Code between two awaits runs    *)
(* to completion (JavaScript run-to-completion) and is one action.         *)
(***************************************************************************)
EXTENDS Integers, Sequences, FiniteSets, TLC

\* ------------------------------------------------------------------ bounds
\* Largest number of bytes a response body delivers.
MaxBodyLen == 3

\* ------------------------------------------------------------ value spaces
Invocations == {1, 2}          \* download invocations (Spec launches one)
TempNames == {"t1", "t2"}      \* names mkdtemp may hand out
Bytes == {"a", "b"}            \* byte values of a downloaded body
OldByte == "o"                 \* byte of a file found at opts.dest beforehand
Statuses == {200, 404}         \* HTTP status codes the servers answer with

NoFile == [exists |-> FALSE, data |-> <<>>]
File(d) == [exists |-> TRUE, data |-> d]

NoError == [type |-> "none", status |-> 0]
Err(t) == [type |-> t, status |-> 0]

\* ------------------------------------------------- sequences of bytes
BytesOfLen(n) == [1..n -> Bytes]

\* All ways to cut a byte sequence s into non-empty chunks (a body stream
\* delivers the same bytes under any chunking).
RECURSIVE Chunkings(_)
Chunkings(s) ==
    IF s = <<>> THEN {<<>>}
    ELSE UNION {{<<SubSeq(s, 1, k)>> \o rest :
                    rest \in Chunkings(SubSeq(s, k + 1, Len(s)))} : k \in 1..Len(s)}

Bodies == UNION {UNION {Chunkings(s) : s \in BytesOfLen(n)} : n \in 0..MaxBodyLen}

RECURSIVE Flatten(_)
Flatten(chunks) ==
    IF chunks = <<>> THEN <<>> ELSE Head(chunks) \o Flatten(Tail(chunks))

IsPrefix(p, s) == Len(p) <= Len(s) /\ SubSeq(s, 1, Len(p)) = p
IsStrictPrefix(p, s) == IsPrefix(p, s) /\ Len(p) < Len(s)

\* ------------------------------------------- content-length and Number()
\* A header value is absent (headers.get returns null) or a string, modelled
\* as its sequence of characters.
NoHeader == [present |-> FALSE, text |-> <<>>]
Header(t) == [present |-> TRUE, text |-> t]

DigitChars == <<"0", "1", "2", "3", "4", "5", "6", "7", "8", "9">>
DigitValue(c) == CHOOSE d \in 0..9 : DigitChars[d + 1] = c
IsDigit(c) == \E d \in 0..9 : DigitChars[d + 1] = c

RECURSIVE DecimalString(_)
DecimalString(n) ==
    IF n < 10 THEN <<DigitChars[n + 1]>>
    ELSE DecimalString(n \div 10) \o <<DigitChars[(n % 10) + 1]>>

\* A JavaScript number: NaN, or the rational num/den (den a power of ten).
NaN == [nan |-> TRUE, num |-> 0, den |-> 1]
Num(n, d) == [nan |-> FALSE, num |-> n, den |-> d]

RECURSIVE DigitsValue(_)
DigitsValue(t) ==
    IF t = <<>> THEN 0
    ELSE 10 * DigitsValue(SubSeq(t, 1, Len(t) - 1)) + DigitValue(t[Len(t)])

RECURSIVE PowerOfTen(_)
PowerOfTen(n) == IF n = 0 THEN 1 ELSE 10 * PowerOfTen(n - 1)

AllDigits(t) == \A k \in 1..Len(t) : IsDigit(t[k])

\* Number(text) for an unsigned decimal literal: digits, optionally "." digits.
UnsignedNumber(t) ==
    LET dots == {k \in 1..Len(t) : t[k] = "."}
    IN  IF t = <<>> THEN NaN
        ELSE IF dots = {} THEN
            IF AllDigits(t) THEN Num(DigitsValue(t), 1) ELSE NaN
        ELSE IF Cardinality(dots) > 1 THEN NaN
        ELSE LET k == CHOOSE x \in dots : TRUE
                 ip == SubSeq(t, 1, k - 1)
                 fp == SubSeq(t, k + 1, Len(t))
             IN  IF Len(t) > 1 /\ AllDigits(ip) /\ AllDigits(fp)
                 THEN Num(DigitsValue(ip \o fp), PowerOfTen(Len(fp)))
                 ELSE NaN

Negate(v) == IF v.nan THEN v ELSE Num(0 - v.num, v.den)

\* Number(res.headers.get('content-length')): null and "" convert to 0, a
\* decimal literal to its value, anything else to NaN.
NumberOfHeader(h) ==
    IF ~h.present THEN Num(0, 1)
    ELSE IF h.text = <<>> THEN Num(0, 1)
    ELSE IF Head(h.text) = "-" THEN Negate(UnsignedNumber(Tail(h.text)))
    ELSE UnsignedNumber(h.text)

NumberIsNaN(v) == v.nan

\* assert(!Number.isNaN(totalBytes), ...) passes
SanityCheckPasses(v) == ~NumberIsNaN(v)

NumEquals(v, n) == ~v.nan /\ v.num = n * v.den

\* The content-length headers a server may send: none, an empty one, a
\* non-numeric one, a negative one, a fractional one, and every byte count
\* up to one more than the longest body.
ContentLengths ==
    {NoHeader, Header(<<>>), Header(<<"a", "b", "c">>), Header(<<"-", "1">>),
     Header(<<"1", ".", "5">>)}
    \cup {Header(DecimalString(n)) : n \in 0..(MaxBodyLen + 1)}

\* response.ok of node-fetch: status in the 2xx range
ResponseOk(status) == status >= 200 /\ status < 300

Responses == [status : Statuses, contentLength : ContentLengths, body : Bodies]
NoResponse == [status |-> 0, contentLength |-> NoHeader, body |-> <<>>]

\* ------------------------------------------------ release API payloads
\* The fields of interface GithubRelease.
ReleaseFields ==
    {"name", "id", "published_at", "assets", "assets[].name",
     "assets[].browser_download_url"}
AssetFields == {"assets[].name", "assets[].browser_download_url"}

\* A response body of the release API: text that is JSON or not; when JSON,
\* the object it encodes is modelled by the set of declared fields it has.
Payloads ==
    {[json |-> j, fields |-> f] :
        j \in BOOLEAN,
        f \in {g \in SUBSET ReleaseFields :
                  (g \cap AssetFields # {}) => "assets" \in g}}
    \ {p \in [json : {FALSE}, fields : SUBSET ReleaseFields] : p.fields # {}}

NoPayload == [json |-> FALSE, fields |-> {}]
ReleaseResponses == [status : Statuses, payload : Payloads]
NoReleaseResponse == [status |-> 0, payload |-> NoPayload]

\* response.json(): the parsed object, or a SyntaxError
ParseJson(p) ==
    IF p.json THEN [ok |-> TRUE, value |-> p.fields]
    ELSE [ok |-> FALSE, value |-> {}]

\* new Error(`Got response ${status} when trying to ...`)
StatusError(status) == [type |-> "Error", status |-> status]

NoRelease == [returned |-> FALSE, fields |-> {}]

\* ------------------------------------------------------------------ state
VARIABLES
    call,           \* which exported function the caller invoked
    server,         \* the asset server: "any" response, or one of "two" bodies
    \* fetchRelease
    fpc,            \* position of fetchRelease
    fres,           \* the response of the release API
    fparsed,        \* response.json() has been invoked
    fgets,          \* HTTP GETs issued by fetchRelease
    ferror,         \* the error fetchRelease rejected with
    release,        \* the value fetchRelease resolved with
    \* download, per invocation
    pc,             \* position of the invocation
    tempDir,        \* the directory mkdtemp created ("" before)
    res,            \* the response of fetch(url)
    totalBytes,     \* downloadFile's totalBytes
    readBytes,      \* downloadFile's readBytes
    delivered,      \* chunks the body has emitted so far
    progressCalls,  \* the (readBytes, totalBytes) pairs passed to onProgress
    ws,             \* state of destFileStream
    wsBuf,          \* bytes written to destFileStream and not yet on disk
    streamFailed,   \* the body or the write stream failed during the pipeline
    scopeErr,       \* the error thrown inside withTempDir's scope
    staged,         \* content of tempFile when moveFile was invoked
    moveCalled,     \* moveFile has been invoked
    moveResult,     \* how moveFile ended
    copied,         \* bytes copyFile has written to dest so far
    rmdirTask,      \* the un-awaited rmdir: none, pending, done, failed
    rmdirIssued,    \* number of rmdir calls issued
    gets,           \* HTTP GETs issued by the invocation
    outcome,        \* none, resolved, rejected
    error,          \* the error download rejected with
    \* file system
    destFile,       \* the file at opts.dest
    destBefore,     \* the file at opts.dest before the call
    openDest,       \* the invocations whose copyFile holds the file at opts.dest open
    tmp             \* temporary directories: existence and the staged file

fvars == <<fpc, fres, fparsed, fgets, ferror, release>>
svars == <<res, totalBytes, readBytes, delivered, progressCalls, ws, wsBuf,
           streamFailed>>
mvars == <<staged, moveCalled, moveResult, copied>>
dvars == <<pc, tempDir, scopeErr, rmdirTask, rmdirIssued, gets, outcome, error>>
fsvars == <<destFile, destBefore, openDest, tmp>>
vars == <<call, server, fvars, svars, mvars, dvars, fsvars>>

\* The responses of the asset server while two downloads run: two bodies of
\* two bytes that differ in content and chunking, each with its length as
\* content-length, under either status.
ConcurrentResponses ==
    [status : Statuses, contentLength : {Header(DecimalString(2))},
     body : {<<<<"a">>, <<"b">>>>, <<<<"b", "a">>>>}]

\* line 111: the responses fetch(url) may resolve with
ServerResponses == IF server = "any" THEN Responses ELSE ConcurrentResponses

NoDir == [exists |-> FALSE, file |-> NoFile]

InitFetchRelease(start) ==
    /\ fpc = IF start THEN "start" ELSE "idle"
    /\ fres = NoReleaseResponse
    /\ fparsed = FALSE
    /\ fgets = 0
    /\ ferror = NoError
    /\ release = NoRelease

InitDownload(started) ==
    /\ pc = [i \in Invocations |-> IF i \in started THEN "start" ELSE "idle"]
    /\ tempDir = [i \in Invocations |-> ""]
    /\ res = [i \in Invocations |-> NoResponse]
    /\ totalBytes = [i \in Invocations |-> Num(0, 1)]
    /\ readBytes = [i \in Invocations |-> 0]
    /\ delivered = [i \in Invocations |-> 0]
    /\ progressCalls = [i \in Invocations |-> <<>>]
    /\ ws = [i \in Invocations |-> "none"]
    /\ wsBuf = [i \in Invocations |-> <<>>]
    /\ streamFailed = [i \in Invocations |-> FALSE]
    /\ scopeErr = [i \in Invocations |-> NoError]
    /\ staged = [i \in Invocations |-> <<>>]
    /\ moveCalled = [i \in Invocations |-> FALSE]
    /\ moveResult = [i \in Invocations |-> "none"]
    /\ copied = [i \in Invocations |-> 0]
    /\ rmdirTask = [i \in Invocations |-> "none"]
    /\ rmdirIssued = [i \in Invocations |-> 0]
    /\ gets = [i \in Invocations |-> 0]
    /\ outcome = [i \in Invocations |-> "none"]
    /\ error = [i \in Invocations |-> NoError]

InitFileSystem ==
    /\ destBefore \in {NoFile, File(<<OldByte>>)}
    /\ destFile = destBefore
    /\ openDest = {}
    /\ tmp = [d \in TempNames |-> NoDir]

Init ==
    /\ call \in {"fetchRelease", "download"}
    /\ server = "any"
    /\ InitFetchRelease(call = "fetchRelease")
    /\ InitDownload(IF call = "download" THEN {1} ELSE {})
    /\ InitFileSystem

\* ------------------------------------------------------------ fetchRelease
\* lines 20-26: build the URL and issue the request
FetchReleaseRequest ==
    /\ fpc = "start"
    /\ fpc' = "fetch"
    /\ fgets' = fgets + 1
    /\ UNCHANGED <<call, server, fres, fparsed, ferror, release, svars, mvars, dvars, fsvars>>

\* Where fetchRelease continues once the response is there (line 28).
AfterReleaseResponse(r) == IF ~ResponseOk(r.status) THEN "errText" ELSE "json"

\* line 26: the awaited fetch rejects, or line 28 looks at the response
FetchReleaseResponse ==
    /\ fpc = "fetch"
    /\ \/ /\ fpc' = "done"
          /\ ferror' = Err("FetchError")
          /\ UNCHANGED fres
       \/ \E r \in ReleaseResponses :
            /\ fres' = r
            /\ fpc' = AfterReleaseResponse(r)
            /\ UNCHANGED ferror
    /\ UNCHANGED <<call, server, fparsed, fgets, release, svars, mvars, dvars, fsvars>>

\* lines 29-42: await response.text() for the log, then throw the status error;
\* a rejection of response.text() leaves the function in place of that error
FetchReleaseError ==
    /\ fpc = "errText"
    /\ \/ ferror' = StatusError(fres.status)
       \/ ferror' = Err("BodyReadError")
    /\ fpc' = "done"
    /\ UNCHANGED <<call, server, fres, fparsed, fgets, release, svars, mvars, dvars, fsvars>>

\* ReleaseOf with every declared field filled in by a default.
ReleaseOfWithDefaults(value) == [returned |-> TRUE, fields |-> value \cup ReleaseFields]

\* The value fetchRelease returns for a parsed payload (lines 45-47: a cast,
\* no runtime check).
ReleaseOf(value) == [returned |-> TRUE, fields |-> value]

\* lines 46-47: await response.json() and return it
FetchReleaseJson ==
    /\ fpc = "json"
    /\ fparsed' = TRUE
    /\ fpc' = "done"
    /\ \/ /\ ParseJson(fres.payload).ok
          /\ release' = ReleaseOf(ParseJson(fres.payload).value)
          /\ UNCHANGED ferror
       \/ /\ ~ParseJson(fres.payload).ok
          /\ ferror' = Err("SyntaxError")
          /\ UNCHANGED release
       \/ /\ ferror' = Err("BodyReadError")
          /\ UNCHANGED release
    /\ UNCHANGED <<call, server, fres, fgets, svars, mvars, dvars, fsvars>>

\* ------------------------------------------------------------ withTempDir
\* The staged file of invocation i: tempFile = join(tempDir, basename(dest)).
TempFile(i) == tmp[tempDir[i]].file
WithTempFile(i, f) == [tmp EXCEPT ![tempDir[i]].file = f]

\* line 145: await fs.promises.realpath(os.tmpdir())
WithTempDirRealpath(i) ==
    /\ pc[i] = "start"
    /\ \/ /\ pc' = [pc EXCEPT ![i] = "mkdtemp"]
          /\ UNCHANGED <<outcome, error>>
       \/ /\ pc' = [pc EXCEPT ![i] = "done"]
          /\ outcome' = [outcome EXCEPT ![i] = "rejected"]
          /\ error' = [error EXCEPT ![i] = Err("realpath")]
    /\ UNCHANGED <<call, server, fvars, svars, mvars, fsvars, tempDir, scopeErr, rmdirTask,
                   rmdirIssued, gets>>

\* FreshTempNames of a fixed directory name made with mkdir -p: a name is
\* handed out whether or not the directory exists.
AnyTempNames == TempNames

\* line 147: the names mkdtemp can create: those of no existing directory
FreshTempNames == {d \in TempNames : ~tmp[d].exists}

\* WithTempDirMkdtemp with `return scope(tempDir)` in place of `return await
\* scope(tempDir)`: the finally block runs, and issues rmdir, as soon as scope
\* has reached its first await.
WithTempDirMkdtempNoAwait(i) ==
    /\ pc[i] = "mkdtemp"
    /\ \E d \in TempNames :
          /\ ~tmp[d].exists
          /\ tmp' = [tmp EXCEPT ![d] = [exists |-> TRUE, file |-> NoFile]]
          /\ tempDir' = [tempDir EXCEPT ![i] = d]
    /\ gets' = [gets EXCEPT ![i] = @ + 1]
    /\ pc' = [pc EXCEPT ![i] = "fetch"]
    /\ rmdirTask' = [rmdirTask EXCEPT ![i] = "pending"]
    /\ rmdirIssued' = [rmdirIssued EXCEPT ![i] = @ + 1]
    /\ UNCHANGED <<call, server, fvars, svars, mvars, destFile, destBefore, openDest, scopeErr,
                   outcome, error>>

\* line 147: await fs.promises.mkdtemp(...) creates a directory that did not
\* exist; then lines 150, 73-83 and 111 run up to the awaited fetch(url)
WithTempDirMkdtemp(i) ==
    /\ pc[i] = "mkdtemp"
    /\ \/ \E d \in FreshTempNames :
            /\ tmp' = [tmp EXCEPT ![d] = [exists |-> TRUE, file |-> NoFile]]
            /\ tempDir' = [tempDir EXCEPT ![i] = d]
            /\ gets' = [gets EXCEPT ![i] = @ + 1]
            /\ pc' = [pc EXCEPT ![i] = "fetch"]
            /\ UNCHANGED <<outcome, error>>
       \/ /\ pc' = [pc EXCEPT ![i] = "done"]
          /\ outcome' = [outcome EXCEPT ![i] = "rejected"]
          /\ error' = [error EXCEPT ![i] = Err("mkdtemp")]
          /\ UNCHANGED <<tmp, tempDir, gets>>
    /\ UNCHANGED <<call, server, fvars, svars, mvars, destFile, destBefore, openDest, scopeErr,
                   rmdirTask, rmdirIssued>>

\* ----------------------------------------------------------- downloadFile
\* An exception inside scope leaves downloadFile, withProgress and scope
\* uncaught: moveFile (line 95) is skipped and the finally block runs.
Throw(i, e) ==
    /\ scopeErr' = [scopeErr EXCEPT ![i] = e]
    /\ pc' = [pc EXCEPT ![i] = "finally"]

\* ResponseCheck without the status check of line 113.
ResponseCheckNoStatus(r) ==
    IF ~SanityCheckPasses(NumberOfHeader(r.contentLength)) THEN "assert" ELSE "stream"

\* What lines 113-121 decide for a response: the error to throw, or none.
ResponseCheck(r) ==
    IF ~ResponseOk(r.status) THEN "status"
    ELSE IF ~SanityCheckPasses(NumberOfHeader(r.contentLength)) THEN "assert"
    ELSE "stream"

\* line 111: the awaited fetch rejects, or lines 113-132 run up to the next
\* await: the status check, the content-length check, the 'data' listener,
\* createWriteStream (which creates the staged file) and the pipeline start
DownloadFileResponse(i) ==
    /\ pc[i] = "fetch"
    /\ \/ /\ Throw(i, Err("FetchError"))
          /\ UNCHANGED <<res, totalBytes, ws, tmp>>
       \/ \E r \in ServerResponses :
            /\ res' = [res EXCEPT ![i] = r]
            /\ \/ /\ ResponseCheck(r) = "status"
                  /\ pc' = [pc EXCEPT ![i] = "errText"]
                  /\ UNCHANGED <<scopeErr, totalBytes, ws, tmp>>
               \/ /\ ResponseCheck(r) = "assert"
                  /\ totalBytes' = [totalBytes EXCEPT ![i] = NumberOfHeader(r.contentLength)]
                  /\ Throw(i, Err("AssertionError"))
                  /\ UNCHANGED <<ws, tmp>>
               \/ /\ ResponseCheck(r) = "stream"
                  /\ totalBytes' = [totalBytes EXCEPT ![i] = NumberOfHeader(r.contentLength)]
                  /\ ws' = [ws EXCEPT ![i] = "open"]
                  /\ tmp' = WithTempFile(i, File(<<>>))
                  /\ pc' = [pc EXCEPT ![i] = "pipeline"]
                  /\ UNCHANGED scopeErr
    /\ UNCHANGED <<call, server, fvars, mvars, destFile, destBefore, openDest, readBytes, delivered,
                   progressCalls, wsBuf, streamFailed, tempDir, rmdirTask,
                   rmdirIssued, gets, outcome, error>>

\* DownloadFileError that requests the file again instead of throwing.
DownloadFileErrorRetry(i) ==
    /\ pc[i] = "errText"
    /\ gets[i] < 3
    /\ gets' = [gets EXCEPT ![i] = @ + 1]
    /\ pc' = [pc EXCEPT ![i] = "fetch"]
    /\ UNCHANGED <<call, server, fvars, svars, mvars, fsvars, tempDir, scopeErr, rmdirTask,
                   rmdirIssued, outcome, error>>

\* lines 114-117: await res.text() for the log, then throw the status error;
\* a rejection of res.text() is thrown in its place
DownloadFileError(i) ==
    /\ pc[i] = "errText"
    /\ \/ Throw(i, StatusError(res[i].status))
       \/ Throw(i, Err("BodyReadError"))
    /\ UNCHANGED <<call, server, fvars, svars, mvars, fsvars, tempDir, rmdirTask, rmdirIssued,
                   gets, outcome, error>>

\* AppendChunk with the two sides swapped.
PrependChunk(data, b) == b \o data

\* Bytes b put after the bytes already there (stream order).
AppendChunk(data, b) == data \o b

\* AddChunkLength that counts chunks instead of bytes.
AddOneForChunk(read, chunk) == read + 1

\* line 127: readBytes += chunk.length
AddChunkLength(read, chunk) == read + Len(chunk)

\* lines 126-129 and the pipe: the body emits its next chunk; the 'data'
\* listener adds its length and calls onProgress, the pipe writes the chunk to
\* destFileStream
BodyData(i) ==
    /\ pc[i] = "pipeline"
    /\ delivered[i] < Len(res[i].body)
    /\ LET chunk == res[i].body[delivered[i] + 1]
           n == AddChunkLength(readBytes[i], chunk)
       IN  /\ readBytes' = [readBytes EXCEPT ![i] = n]
           /\ progressCalls' = [progressCalls EXCEPT ![i] =
                  Append(@, [readBytes |-> n, totalBytes |-> totalBytes[i]])]
           /\ wsBuf' = [wsBuf EXCEPT ![i] = AppendChunk(@, chunk)]
           /\ delivered' = [delivered EXCEPT ![i] = @ + 1]
    /\ UNCHANGED <<call, server, fvars, mvars, dvars, fsvars, res, totalBytes, ws, streamFailed>>

\* destFileStream writes its buffered bytes to the staged file
WriteFlush(i) ==
    /\ pc[i] = "pipeline"
    /\ wsBuf[i] # <<>>
    /\ tmp' = WithTempFile(i, File(AppendChunk(TempFile(i).data, wsBuf[i])))
    /\ wsBuf' = [wsBuf EXCEPT ![i] = <<>>]
    /\ UNCHANGED <<call, server, fvars, mvars, dvars, destFile, destBefore, openDest, res, totalBytes,
                   readBytes, delivered, progressCalls, ws, streamFailed>>

\* AfterPipelineError with the rejection swallowed (a catch that only logs).
AfterPipelineErrorSwallowed == "moveFile"

\* Where the invocation continues when the awaited pipeline rejects: the
\* rejection is not caught anywhere in downloadFile, download or scope.
AfterPipelineError == "finally"

\* line 132: the body fails (network drop) or a write fails; the pipeline
\* destroys both streams and rejects
PipelineError(i) ==
    /\ pc[i] = "pipeline"
    /\ \E e \in {"NetworkError", "WriteError"} :
          scopeErr' = [scopeErr EXCEPT ![i] = Err(e)]
    /\ streamFailed' = [streamFailed EXCEPT ![i] = TRUE]
    /\ ws' = [ws EXCEPT ![i] = "closed"]
    /\ wsBuf' = [wsBuf EXCEPT ![i] = <<>>]
    /\ pc' = [pc EXCEPT ![i] = AfterPipelineError]
    /\ UNCHANGED <<call, server, fvars, mvars, fsvars, res, totalBytes, readBytes, delivered,
                   progressCalls, tempDir, rmdirTask, rmdirIssued, gets, outcome, error>>

\* AfterPipelineDone without the workaround of lines 133-138: downloadFile
\* returns as soon as the pipeline has resolved.
AfterPipelineDoneNoWorkaround == "moveFile"

\* Where downloadFile continues when the awaited pipeline resolves: the
\* promise of lines 133-138, which waits for the stream's 'close'.
AfterPipelineDone == "closing"

\* line 132: the body has ended and every byte is on disk: the pipeline
\* resolves.  Depending on the platform the write stream has by then only
\* finished, or has already closed itself and emitted 'close'.
PipelineDone(i) ==
    /\ pc[i] = "pipeline"
    /\ delivered[i] = Len(res[i].body)
    /\ wsBuf[i] = <<>>
    /\ \E s \in {"finished", "closed"} : ws' = [ws EXCEPT ![i] = s]
    /\ pc' = [pc EXCEPT ![i] = AfterPipelineDone]
    /\ UNCHANGED <<call, server, fvars, mvars, fsvars, res, totalBytes, readBytes, delivered,
                   progressCalls, wsBuf, streamFailed, tempDir, scopeErr, rmdirTask,
                   rmdirIssued, gets, outcome, error>>

\* lines 133-135: attach the 'close' listener and destroy the stream; destroy
\* of a stream that has closed already does nothing
DownloadFileDestroy(i) ==
    /\ pc[i] = "closing"
    /\ ws' = [ws EXCEPT ![i] = IF @ = "finished" THEN "destroying" ELSE @]
    /\ pc' = [pc EXCEPT ![i] = "awaitClose"]
    /\ UNCHANGED <<call, server, fvars, mvars, fsvars, res, totalBytes, readBytes, delivered,
                   progressCalls, wsBuf, streamFailed, tempDir, scopeErr, rmdirTask,
                   rmdirIssued, gets, outcome, error>>

\* line 134: the stream emits 'close', the listener resolves the promise and
\* downloadFile returns; withProgress resolves (lines 75-93)
DownloadFileClose(i) ==
    /\ pc[i] = "awaitClose"
    /\ ws[i] = "destroying"
    /\ ws' = [ws EXCEPT ![i] = "closed"]
    /\ pc' = [pc EXCEPT ![i] = "moveFile"]
    /\ UNCHANGED <<call, server, fvars, mvars, fsvars, res, totalBytes, readBytes, delivered,
                   progressCalls, wsBuf, streamFailed, tempDir, scopeErr, rmdirTask,
                   rmdirIssued, gets, outcome, error>>

\* ---------------------------------------------------------------- moveFile
\* The error codes fs.promises.rename may reject with.
RenameErrors == {"EXDEV", "EACCES"}

\* line 161: which errors of rename lead to the copy fallback
IsCrossDevice(code) == code = "EXDEV"

\* moveFile ends by throwing e (lines 163, 164, 167)
MoveFileThrow(i, e) ==
    /\ moveResult' = [moveResult EXCEPT ![i] = "failed"]
    /\ Throw(i, e)

\* moveFile returns; scope returns (line 96)
MoveFileReturn(i, how) ==
    /\ moveResult' = [moveResult EXCEPT ![i] = how]
    /\ pc' = [pc EXCEPT ![i] = "finally"]
    /\ UNCHANGED scopeErr

\* line 95: download calls moveFile(tempFile, opts.dest), which issues rename
MoveFileCall(i) ==
    /\ pc[i] = "moveFile"
    /\ moveCalled' = [moveCalled EXCEPT ![i] = TRUE]
    /\ staged' = [staged EXCEPT ![i] = TempFile(i).data]
    /\ pc' = [pc EXCEPT ![i] = "rename"]
    /\ UNCHANGED <<call, server, fvars, svars, fsvars, moveResult, copied, tempDir, scopeErr,
                   rmdirTask, rmdirIssued, gets, outcome, error>>

\* lines 159-168: rename replaces dest by the staged file in one step (a
\* descriptor opened on the replaced file no longer refers to dest), or
\* rejects and leaves both files alone; EXDEV starts the copy fallback
MoveFileRename(i) ==
    /\ pc[i] = "rename"
    /\ \/ /\ destFile' = TempFile(i)
          /\ openDest' = {}
          /\ tmp' = WithTempFile(i, NoFile)
          /\ MoveFileReturn(i, "renamed")
       \/ \E code \in RenameErrors :
            /\ UNCHANGED <<destFile, openDest, tmp>>
            /\ IF IsCrossDevice(code)
               THEN /\ pc' = [pc EXCEPT ![i] = "copyFile"]
                    /\ UNCHANGED <<moveResult, scopeErr>>
               ELSE MoveFileThrow(i, Err(code))
    /\ UNCHANGED <<call, server, fvars, svars, destBefore, staged, moveCalled, copied, tempDir,
                   rmdirTask, rmdirIssued, gets, outcome, error>>

\* line 163, first step of copyFile: dest is opened for writing and truncated,
\* or cannot be opened
MoveFileCopyOpen(i) ==
    /\ pc[i] = "copyFile"
    /\ \/ /\ destFile' = File(<<>>)
          /\ openDest' = openDest \cup {i}
          /\ copied' = [copied EXCEPT ![i] = 0]
          /\ pc' = [pc EXCEPT ![i] = "copyWrite"]
          /\ UNCHANGED <<moveResult, scopeErr>>
       \/ /\ MoveFileThrow(i, Err("CopyError"))
          /\ UNCHANGED <<destFile, openDest, copied>>
    /\ UNCHANGED <<call, server, fvars, svars, destBefore, tmp, staged, moveCalled, tempDir,
                   rmdirTask, rmdirIssued, gets, outcome, error>>

\* CopyComplete that stops one byte short.
CopyCompleteShort(n, src) == n >= Len(src) - 1

\* copyFile has written all of src
CopyComplete(n, src) == n = Len(src)

\* The byte read from a part of a file that was never written.
HoleByte == "z"

\* A file's content after byte b is written at offset n.
WriteAt(data, n, b) ==
    [k \in 1..(IF Len(data) > n THEN Len(data) ELSE n + 1) |->
        IF k = n + 1 THEN b ELSE IF k <= Len(data) THEN data[k] ELSE HoleByte]

\* line 163, copyFile writes the next byte of src at its own offset of the
\* file it opened, which is the file at dest unless that was replaced or removed
MoveFileCopyWrite(i) ==
    /\ pc[i] = "copyWrite"
    /\ ~CopyComplete(copied[i], TempFile(i).data)
    /\ destFile' = IF i \in openDest
                   THEN File(WriteAt(destFile.data, copied[i], TempFile(i).data[copied[i] + 1]))
                   ELSE destFile
    /\ copied' = [copied EXCEPT ![i] = @ + 1]
    /\ UNCHANGED <<call, server, fvars, svars, dvars, destBefore, openDest, tmp, staged, moveCalled,
                   moveResult>>

\* line 163, copyFile is through and resolves; line 164 issues unlink
MoveFileCopyEnd(i) ==
    /\ pc[i] = "copyWrite"
    /\ CopyComplete(copied[i], TempFile(i).data)
    /\ openDest' = openDest \ {i}
    /\ pc' = [pc EXCEPT ![i] = "unlink"]
    /\ UNCHANGED <<call, server, fvars, svars, mvars, destFile, destBefore, tmp, tempDir, scopeErr, rmdirTask,
                   rmdirIssued, gets, outcome, error>>

\* line 163, copyFile fails after dest was opened (disk full, I/O error): it
\* tries to remove dest, which may fail too, and rejects
MoveFileCopyFail(i) ==
    /\ pc[i] = "copyWrite"
    /\ \/ destFile' = NoFile /\ openDest' = {}
       \/ destFile' = destFile /\ openDest' = openDest \ {i}
    /\ MoveFileThrow(i, Err("CopyError"))
    /\ UNCHANGED <<call, server, fvars, svars, destBefore, tmp, staged, moveCalled, copied,
                   tempDir, rmdirTask, rmdirIssued, gets, outcome, error>>

\* line 164: unlink removes the staged file, or rejects
MoveFileUnlink(i) ==
    /\ pc[i] = "unlink"
    /\ \/ /\ tmp' = WithTempFile(i, NoFile)
          /\ MoveFileReturn(i, "copied")
       \/ /\ MoveFileThrow(i, Err("UnlinkError"))
          /\ UNCHANGED tmp
    /\ UNCHANGED <<call, server, fvars, svars, destFile, destBefore, openDest, staged, moveCalled, copied,
                   tempDir, rmdirTask, rmdirIssued, gets, outcome, error>>

\* ------------------------------------------------ withTempDir, finally
\* OutcomeOf of a finally block that returns and so swallows scope's error.
OutcomeOfSwallowed(e) == "resolved"

\* The outcome withTempDir hands to its caller for the error scope threw.
OutcomeOf(e) == IF e = NoError THEN "resolved" ELSE "rejected"

\* lines 151-154: the finally block issues rmdir without awaiting it, and
\* withTempDir (and download, line 72) returns or rethrows at once
WithTempDirFinally(i) ==
    /\ pc[i] = "finally"
    /\ rmdirTask' = [rmdirTask EXCEPT ![i] = "pending"]
    /\ rmdirIssued' = [rmdirIssued EXCEPT ![i] = @ + 1]
    /\ outcome' = [outcome EXCEPT ![i] = OutcomeOf(scopeErr[i])]
    /\ error' = [error EXCEPT ![i] = scopeErr[i]]
    /\ pc' = [pc EXCEPT ![i] = "done"]
    /\ UNCHANGED <<call, server, fvars, svars, mvars, fsvars, tempDir, scopeErr, gets>>

\* RmdirRecursive without the recursive option: a directory that still holds
\* a file stays.
RmdirNonRecursive(dir) == IF dir.file.exists THEN dir ELSE NoDir

\* What rmdir(dir, {recursive: true}) leaves of a directory.
RmdirRecursive(dir) == NoDir

\* line 153: the rmdir issued by the finally block settles: the directory and
\* what is in it are gone, or rmdir rejects and .catch(log.error) logs it
RmdirSettle(i) ==
    /\ rmdirTask[i] = "pending"
    /\ \/ /\ tmp' = [tmp EXCEPT ![tempDir[i]] = RmdirRecursive(@)]
          /\ rmdirTask' = [rmdirTask EXCEPT ![i] = "done"]
       \/ /\ rmdirTask' = [rmdirTask EXCEPT ![i] = "failed"]
          /\ UNCHANGED tmp
    /\ UNCHANGED <<call, server, fvars, svars, mvars, destFile, destBefore, openDest, pc, tempDir,
                   scopeErr, rmdirIssued, gets, outcome, error>>

\* ----------------------------------------------------------- specification
Download(i) ==
    \/ WithTempDirRealpath(i)
    \/ WithTempDirMkdtemp(i)
    \/ DownloadFileResponse(i)
    \/ DownloadFileError(i)
    \/ BodyData(i)
    \/ WriteFlush(i)
    \/ PipelineError(i)
    \/ PipelineDone(i)
    \/ DownloadFileDestroy(i)
    \/ DownloadFileClose(i)
    \/ MoveFileCall(i)
    \/ MoveFileRename(i)
    \/ MoveFileCopyOpen(i)
    \/ MoveFileCopyWrite(i)
    \/ MoveFileCopyEnd(i)
    \/ MoveFileCopyFail(i)
    \/ MoveFileUnlink(i)
    \/ WithTempDirFinally(i)
    \/ RmdirSettle(i)

Next ==
    \/ FetchReleaseRequest
    \/ FetchReleaseResponse
    \/ FetchReleaseError
    \/ FetchReleaseJson
    \/ \E i \in Invocations : Download(i)

Spec == Init /\ [][Next]_vars

\* ------------------------------------------------- concurrent downloads
\* The caller issues two download(opts) with the same opts.dest at once
\* (lines 70-72, twice).
InitConcurrent ==
    /\ call = "download"
    /\ server = "two"
    /\ InitFetchRelease(FALSE)
    /\ InitDownload(Invocations)
    /\ InitFileSystem

NextConcurrent == \E i \in Invocations : Download(i)

SpecConcurrent == InitConcurrent /\ [][NextConcurrent]_vars

\* ------------------------------------------- download's progress callback
\* A JavaScript number of the progress arithmetic: a rational num/den with
\* den > 0, +Infinity, -Infinity or NaN.  (Arithmetic on the rationals is
\* exact here; the rounding of doubles is not modelled.)
JsNum(n, d) == [kind |-> "num", num |-> n, den |-> d]
JsInf == [kind |-> "inf", num |-> 1, den |-> 1]
JsNegInf == [kind |-> "ninf", num |-> -1, den |-> 1]
JsNaN == [kind |-> "nan", num |-> 0, den |-> 1]

\* a - b
JsSub(a, b) ==
    IF a.kind = "nan" \/ b.kind = "nan" THEN JsNaN
    ELSE IF a.kind = "num" /\ b.kind = "num"
         THEN JsNum(a.num * b.den - b.num * a.den, a.den * b.den)
    ELSE IF a.kind = b.kind THEN JsNaN
    ELSE IF a.kind = "inf" \/ b.kind = "ninf" THEN JsInf
    ELSE JsNegInf

\* a + b
JsAdd(a, b) ==
    IF a.kind = "nan" \/ b.kind = "nan" THEN JsNaN
    ELSE IF a.kind = "num" /\ b.kind = "num"
         THEN JsNum(a.num * b.den + b.num * a.den, a.den * b.den)
    ELSE IF a.kind = "num" THEN b
    ELSE IF b.kind = "num" THEN a
    ELSE IF a.kind = b.kind THEN a
    ELSE JsNaN

\* a === b and a <= b
JsEq(a, b) ==
    /\ a.kind # "nan" /\ b.kind # "nan"
    /\ IF a.kind = "num" /\ b.kind = "num"
       THEN a.num * b.den = b.num * a.den
       ELSE a.kind = b.kind
JsLeq(a, b) ==
    /\ a.kind # "nan" /\ b.kind # "nan"
    /\ IF a.kind = "num" /\ b.kind = "num"
       THEN a.num * b.den <= b.num * a.den
       ELSE a.kind = "ninf" \/ b.kind = "inf"

\* line 84: (readBytes / totalBytes) * 100, for a totalBytes that passed the
\* assert of line 121 (so it is not NaN); a division by zero gives an infinity
\* or, for 0 / 0, NaN
NewPercentage(read, total) ==
    IF total.num = 0
    THEN IF read > 0 THEN JsInf ELSE IF read < 0 THEN JsNegInf ELSE JsNaN
    ELSE IF total.num > 0
         THEN JsNum(read * total.den * 100, total.num)
         ELSE JsNum(0 - read * total.den * 100, 0 - total.num)

\* line 87: increment: newPercentage - lastPercentage
Increment(new, last) == JsSub(new, last)

\* lines 82-91: what download passes to progress.report for a sequence of
\* onProgress calls, lastPercentage being `last` before the first of them
RECURSIVE ProgressReports(_, _)
ProgressReports(calls, last) ==
    IF calls = <<>> THEN <<>>
    ELSE LET new == NewPercentage(Head(calls).readBytes, Head(calls).totalBytes)
         IN  <<[percentage |-> new, increment |-> Increment(new, last)]>>
             \o ProgressReports(Tail(calls), new)

\* The reports of invocation i so far (line 82: lastPercentage = 0).
Reports(i) == ProgressReports(progressCalls[i], JsNum(0, 1))

\* ------------------------------------------------------------------ claims
\* downloadFile has returned normally to download's progress callback.
DownloadFileReturned(i) == pc[i] = "moveFile" \/ moveCalled[i]

\* C1: in every state of a download, opts.dest is in its state from before the
\* call or holds the complete staged file, never a strict prefix of it (the
\* claim as stated; the copy fallback of moveFile violates it).
C1_DestNeverPartial ==
    \/ destFile = destBefore
    \/ \E i \in Invocations : moveCalled[i] /\ destFile = File(staged[i])

\* C2: once the body stream or a write has failed during the pipeline, moveFile
\* is never invoked, opts.dest stays as it was before the call, the invocation
\* only runs its finally block, and it ends rejected with the stream's error.
C2_StreamFailureLeavesDest ==
    \A i \in Invocations :
        streamFailed[i] =>
            /\ ~moveCalled[i]
            /\ destFile = destBefore
            /\ pc[i] \in {"finally", "done"}
            /\ scopeErr[i].type \in {"NetworkError", "WriteError"}
            /\ pc[i] = "done" => (outcome[i] = "rejected" /\ error[i] = scopeErr[i])

\* C2 witness: a download rejected after a network drop that followed at least
\* one chunk, with the partial file still in the temporary directory.
C2_Witness ==
    \E i \in Invocations :
        /\ streamFailed[i] /\ pc[i] = "done" /\ outcome[i] = "rejected"
        /\ delivered[i] >= 1 /\ delivered[i] < Len(res[i].body)
        /\ TempFile(i).exists /\ TempFile(i).data # <<>>
        /\ IsStrictPrefix(TempFile(i).data, Flatten(res[i].body))

\* C3: whenever download has resolved, the file at opts.dest holds exactly the
\* chunks the body delivered, concatenated in order of delivery.
C3_DestEqualsBody ==
    \A i \in Invocations :
        (pc[i] = "done" /\ outcome[i] = "resolved") =>
            /\ delivered[i] = Len(res[i].body)
            /\ destFile = File(Flatten(SubSeq(res[i].body, 1, delivered[i])))

\* C3 witness: a resolved download of two chunks or more whose bytes differ.
C3_Witness ==
    \E i \in Invocations :
        /\ pc[i] = "done" /\ outcome[i] = "resolved"
        /\ delivered[i] >= 2
        /\ destFile.data = <<"a", "b", "b">>

\* The temporary directory withTempDir created for invocation i exists.
TempDirExists(i) == tmp[tempDir[i]].exists

\* C4 as stated: when withTempDir has returned or thrown and the removal did not
\* fail, the temporary directory it created no longer exists.
C4_DirGoneAtReturn ==
    \A i \in Invocations :
        (pc[i] = "done" /\ tempDir[i] # "" /\ rmdirTask[i] # "failed") =>
            ~TempDirExists(i)

\* C4 amended: when withTempDir has returned or thrown after creating its
\* directory, the recursive removal has been issued exactly once (it is not
\* awaited), and once that removal has completed without failing neither the
\* directory nor the staged file exists, whether scope resolved or rejected.
C4_RemovalIssuedAtReturn ==
    \A i \in Invocations :
        (pc[i] = "done" /\ tempDir[i] # "") =>
            /\ rmdirIssued[i] = 1
            /\ rmdirTask[i] \in {"pending", "done", "failed"}
            /\ rmdirTask[i] = "done" => (~TempDirExists(i) /\ ~TempFile(i).exists)

\* C4 witness: scope rejected with a partial file staged, withTempDir has
\* thrown, and the removal has completed.
C4_Witness ==
    \E i \in Invocations :
        /\ pc[i] = "done" /\ outcome[i] = "rejected" /\ tempDir[i] # ""
        /\ streamFailed[i] /\ readBytes[i] > 0
        /\ rmdirTask[i] = "done" /\ ~TempDirExists(i)

\* A content-length header that is a non-negative integer in decimal.
ValidContentLength(h) == h.present /\ h.text # <<>> /\ AllDigits(h.text)

\* C5 as stated: an OK response whose content-length is absent or no valid
\* non-negative integer makes downloadFile fail before the staged file is
\* created, before a byte is written and before any onProgress call.
C5_InvalidLengthFailsEarly ==
    \A i \in Invocations :
        (ResponseOk(res[i].status) /\ ~ValidContentLength(res[i].contentLength)) =>
            /\ pc[i] \in {"finally", "done"}
            /\ ws[i] = "none"
            /\ ~TempFile(i).exists
            /\ progressCalls[i] = <<>>

\* C6 as stated: over the onProgress calls of one run readBytes never
\* decreases and totalBytes is the same in every call, and when downloadFile
\* has returned normally the last call has readBytes equal to totalBytes.
C6_ProgressEndsAtTotal ==
    \A i \in Invocations :
        LET calls == progressCalls[i]
        IN  /\ \A k \in 1..(Len(calls) - 1) :
                  /\ calls[k].readBytes <= calls[k + 1].readBytes
                  /\ calls[k].totalBytes = calls[k + 1].totalBytes
            /\ (DownloadFileReturned(i) /\ calls # <<>>) =>
                  NumEquals(calls[Len(calls)].totalBytes, calls[Len(calls)].readBytes)

\* C7 as stated: when the release API answers with a non-success status,
\* fetchRelease rejects with an error carrying that status, has not parsed the
\* body, and returns no release.
C7_StatusErrorCarriesStatus ==
    (fpc = "done" /\ fres.status \in Statuses /\ ~ResponseOk(fres.status)) =>
        /\ ferror = StatusError(fres.status)
        /\ ~fparsed
        /\ ~release.returned

\* C8 as stated: a success response whose JSON payload lacks one of the
\* expected fields makes fetchRelease fail instead of returning a release.
C8_MissingFieldsRejected ==
    (fpc = "done" /\ ResponseOk(fres.status) /\ fres.payload.fields # ReleaseFields) =>
        (ferror # NoError /\ ~release.returned)

\* C8 amended: on a success response fetchRelease checks no field: when it
\* returns, the body was JSON and the release has exactly the fields the
\* payload has, missing ones included; it fails only when the body is not
\* JSON or cannot be read.
C8_PayloadReturnedUnchecked ==
    (fpc = "done" /\ ResponseOk(fres.status)) =>
        /\ fparsed
        /\ release.returned =>
              (ferror = NoError /\ fres.payload.json /\ release.fields = fres.payload.fields)
        /\ ~release.returned => ferror.type \in {"SyntaxError", "BodyReadError"}
        /\ ferror.type = "SyntaxError" => ~fres.payload.json

\* C8 witness: fetchRelease returned a release that has a name and nothing else.
C8_Witness ==
    /\ fpc = "done" /\ ResponseOk(fres.status)
    /\ release.returned /\ release.fields = {"name"}

\* C9: whether rename succeeded or failed with EXDEV and the copy fallback ran,
\* a moveFile that returned leaves the same final state: dest holds exactly
\* the staged content and src no longer exists.
C9_FallbackSameAsRename ==
    \A i \in Invocations :
        moveResult[i] \in {"renamed", "copied"} =>
            /\ destFile = File(staged[i])
            /\ ~TempFile(i).exists

\* C9 witness: moveFile returned through the copy fallback with three bytes staged.
C9_Witness ==
    \E i \in Invocations :
        /\ moveResult[i] = "copied" /\ pc[i] = "finally"
        /\ staged[i] = <<"a", "b", "a">>

\* C10 as stated: moveFile either returns with dest holding the complete staged
\* file, or throws the platform error with dest unchanged from before the call.
C10_MoveAllOrNothing ==
    \A i \in Invocations :
        moveResult[i] # "none" =>
            \/ /\ moveResult[i] \in {"renamed", "copied"}
               /\ scopeErr[i] = NoError
               /\ destFile = File(staged[i])
            \/ /\ moveResult[i] = "failed"
               /\ scopeErr[i].type \in RenameErrors \cup {"CopyError", "UnlinkError"}
               /\ destFile = destBefore

\* C11: in every state in which downloadFile has returned, hence in every
\* state of moveFile, the staging file's write stream is closed and holds no
\* unwritten byte: the staged file has every byte the stream was given.
C11_StreamClosedOnReturn ==
    \A i \in Invocations :
        DownloadFileReturned(i) =>
            /\ ws[i] = "closed"
            /\ wsBuf[i] = <<>>
            /\ moveCalled[i] => staged[i] = Flatten(res[i].body)

\* C11 witness: moveFile is about to rename a staged file of two chunks whose
\* stream was closed by the explicit destroy.
C11_Witness ==
    \E i \in Invocations :
        /\ pc[i] = "rename" /\ ws[i] = "closed"
        /\ delivered[i] = 2 /\ staged[i] = <<"a", "b">>

\* C12 as stated: once the pipeline has resolved, downloadFile returns under
\* both platform behaviours; as a property of states: as long as downloadFile
\* is in lines 133-138 a step that brings it to its return can be taken (the
\* destroy, or the 'close' event that resolves the promise).  Where no such
\* step is enabled none ever becomes enabled, and downloadFile never returns.
C12_DownloadFileReturns ==
    \A i \in Invocations :
        pc[i] \in {"closing", "awaitClose"} =>
            ENABLED (DownloadFileDestroy(i) \/ DownloadFileClose(i))

\* The response of invocation i has a content-length equal to its body length.
LengthMatchesBody(i) ==
    /\ ValidContentLength(res[i].contentLength)
    /\ NumEquals(NumberOfHeader(res[i].contentLength), Len(Flatten(res[i].body)))

\* C13: onProgress has been called once per chunk received so far, in order of
\* arrival: the k-th call carries the summed length of the first k chunks, and
\* when the body length equals the content-length header no call carries more
\* than totalBytes.
C13_OneCallPerChunk ==
    \A i \in Invocations :
        LET calls == progressCalls[i]
        IN  /\ Len(calls) = delivered[i]
            /\ \A k \in 1..Len(calls) :
                  /\ calls[k].readBytes = Len(Flatten(SubSeq(res[i].body, 1, k)))
                  /\ LengthMatchesBody(i) =>
                        /\ calls[k].totalBytes = Num(Len(Flatten(res[i].body)), 1)
                        /\ calls[k].readBytes <= calls[k].totalBytes.num

\* C13 witness: two chunks of one and two bytes arrived under a matching
\* content-length of 3, and the two calls carried 1 and 3.
C13_Witness ==
    \E i \in Invocations :
        /\ LengthMatchesBody(i) /\ delivered[i] = 2
        /\ Len(res[i].body[1]) = 1 /\ Len(res[i].body[2]) = 2
        /\ progressCalls[i][1].readBytes = 1 /\ progressCalls[i][2].readBytes = 3

\* C14: withTempDir issues the removal of its directory exactly once, on every
\* exit path and only once scope has resolved or rejected, and what its caller
\* sees is what scope did: resolved when scope returned (moveFile had
\* returned), rejected with scope's own error when scope threw, whether the
\* removal is pending, has succeeded or has failed (a failure is only logged).
C14_RemovalOnceOutcomeKept ==
    \A i \in Invocations :
        /\ rmdirIssued[i] <= 1
        /\ rmdirIssued[i] = 1 <=> (pc[i] = "done" /\ tempDir[i] # "")
        /\ rmdirTask[i] # "none" <=> rmdirIssued[i] = 1
        /\ (pc[i] = "done" /\ tempDir[i] # "") =>
              /\ scopeErr[i] = NoError =>
                    /\ outcome[i] = "resolved" /\ error[i] = NoError
                    /\ moveResult[i] \in {"renamed", "copied"}
              /\ scopeErr[i] # NoError =>
                    /\ outcome[i] = "rejected" /\ error[i] = scopeErr[i]

\* C14 witness: scope threw a status error, withTempDir rethrew it, and the
\* removal failed afterwards.
C14_Witness ==
    \E i \in Invocations :
        /\ pc[i] = "done" /\ rmdirIssued[i] = 1 /\ rmdirTask[i] = "failed"
        /\ outcome[i] = "rejected" /\ error[i] = StatusError(404)

\* Positions inside downloadFile (lines 111-138) and inside moveFile (158-169).
InDownloadFile(i) == pc[i] \in {"fetch", "errText", "pipeline", "closing", "awaitClose"}
InMoveFile(i) == pc[i] \in {"rename", "copyFile", "copyWrite", "unlink"}

\* C15: within one download the steps come in the order: directory created,
\* downloadFile started and finished, moveFile started and finished, removal
\* issued.  downloadFile starts only with the directory created; moveFile
\* starts only after downloadFile has returned normally; while downloadFile or
\* moveFile (copy and unlink included) is running the directory exists and no
\* removal has been issued; the removal is issued only with moveFile, if it
\* was started, finished.
C15_StepOrder ==
    \A i \in Invocations :
        /\ gets[i] > 0 => tempDir[i] # ""
        /\ InDownloadFile(i) => ~moveCalled[i]
        /\ (InDownloadFile(i) \/ pc[i] = "moveFile" \/ InMoveFile(i)) =>
              /\ tempDir[i] # "" /\ TempDirExists(i)
              /\ rmdirIssued[i] = 0 /\ rmdirTask[i] = "none"
        /\ moveCalled[i] =>
              /\ gets[i] = 1 /\ ResponseOk(res[i].status)
              /\ ~streamFailed[i] /\ delivered[i] = Len(res[i].body)
              /\ ws[i] = "closed"
        /\ InMoveFile(i) => (moveCalled[i] /\ moveResult[i] = "none")
        /\ rmdirIssued[i] > 0 =>
              /\ pc[i] = "done"
              /\ moveCalled[i] => moveResult[i] # "none"

\* C15 witness: a download that went through every step, the copy fallback
\* included, and whose removal has been issued.
C15_Witness ==
    \E i \in Invocations :
        /\ pc[i] = "done" /\ outcome[i] = "resolved"
        /\ moveResult[i] = "copied" /\ readBytes[i] = 2
        /\ rmdirIssued[i] = 1 /\ rmdirTask[i] = "pending"

\* C16: when the asset download answers with a non-success status, downloadFile
\* only reads the body for the log and throws: no write stream is opened, the
\* staged file is never created, onProgress is never called, moveFile is never
\* invoked, opts.dest is untouched, and the download ends rejected.
C16_BadStatusFailsEarly ==
    \A i \in Invocations :
        (res[i].status \in Statuses /\ ~ResponseOk(res[i].status)) =>
            /\ pc[i] \in {"errText", "finally", "done"}
            /\ ws[i] = "none" /\ wsBuf[i] = <<>>
            /\ ~TempFile(i).exists
            /\ progressCalls[i] = <<>> /\ readBytes[i] = 0
            /\ ~moveCalled[i]
            /\ destFile = destBefore
            /\ pc[i] \in {"finally", "done"} => scopeErr[i] # NoError
            /\ pc[i] = "done" => outcome[i] = "rejected"

\* C16 witness: downloadFile has thrown the status error of a 404 that came
\* with a valid content-length and a body; the directory holds no file.
C16_Witness ==
    \E i \in Invocations :
        /\ pc[i] = "finally" /\ scopeErr[i] = StatusError(404)
        /\ ValidContentLength(res[i].contentLength) /\ res[i].body # <<>>
        /\ TempDirExists(i) /\ ~TempFile(i).exists

\* The sum of the increments of the first k reports.
RECURSIVE SumOfIncrements(_, _)
SumOfIncrements(reports, k) ==
    IF k = 0 THEN JsNum(0, 1)
    ELSE JsAdd(SumOfIncrements(reports, k - 1), reports[k].increment)

\* C18 as stated: for every sequence of chunks the values forwarded to
\* progress.report are monotonic: every increment is non-negative, the
\* percentage never decreases, the increments reported so far add up to the
\* percentage of the latest call, and that is 100 once the download succeeded.
C18_ProgressMonotonic ==
    \A i \in Invocations :
        LET reports == Reports(i)
        IN  /\ \A k \in 1..Len(reports) :
                  /\ JsLeq(JsNum(0, 1), reports[k].increment)
                  /\ k > 1 => JsLeq(reports[k - 1].percentage, reports[k].percentage)
                  /\ JsEq(SumOfIncrements(reports, k), reports[k].percentage)
            /\ (DownloadFileReturned(i) /\ reports # <<>>) =>
                  JsEq(reports[Len(reports)].percentage, JsNum(100, 1))

\* A step of download invocation i has failed.
Failed(i) == scopeErr[i] # NoError \/ error[i] # NoError

\* C19, states: fetchRelease and every download issue at most one HTTP GET; a
\* failure of fetchRelease ends it with that error and without a release; a
\* failed download is in or past its finally block and ends rejected with the
\* error of the step that failed.
C19_AtMostOneGet ==
    /\ fgets <= 1
    /\ ferror # NoError => (fpc = "done" /\ ~release.returned)
    /\ fpc = "done" => (release.returned <=> ferror = NoError)
    /\ \A i \in Invocations :
          /\ gets[i] <= 1
          /\ Failed(i) => pc[i] \in {"finally", "done"}
          /\ pc[i] = "done" =>
                /\ outcome[i] = "rejected" <=> Failed(i)
                /\ tempDir[i] # "" => error[i] = scopeErr[i]

\* C19, steps: once a step has failed no further request is issued, the error
\* is not replaced, moveFile is not started or continued, and the staged file
\* is not written any more (only the removal may delete it).
C19_NothingAfterFailure ==
    /\ ferror # NoError => (fgets' = fgets /\ ferror' = ferror /\ fparsed' = fparsed)
    /\ \A i \in Invocations :
          Failed(i) =>
              /\ gets'[i] = gets[i]
              /\ scopeErr'[i] = scopeErr[i]
              /\ error'[i] \in {NoError, scopeErr[i], error[i]}
              /\ moveCalled'[i] = moveCalled[i]
              /\ moveResult'[i] = moveResult[i] /\ copied'[i] = copied[i]
              /\ wsBuf'[i] = wsBuf[i] /\ delivered'[i] = delivered[i]
              /\ destFile' = destFile
              /\ tempDir[i] # "" => TempFile(i)' \in {TempFile(i), NoFile}

\* C19: neither fetchRelease nor download ever retries: at most one HTTP GET
\* per invocation, and after the first failure of any step no further
\* request, write to the staged file or move, and the error reaches the caller.
C19_NoRetry == []C19_AtMostOneGet /\ [][C19_NothingAfterFailure]_vars

\* C19 witness: a download whose only request was answered 404 has ended
\* rejected with that error, and its directory has been removed.
C19_Witness ==
    \E i \in Invocations :
        /\ pc[i] = "done" /\ outcome[i] = "rejected" /\ gets[i] = 1
        /\ error[i] = StatusError(404) /\ rmdirTask[i] = "done"

\* Invocation i has a temporary directory that it, or its pending removal,
\* may still act on.
HoldsTempDir(i) == tempDir[i] # "" /\ rmdirTask[i] # "done"

\* The step taken is a step of invocation i.
StepOf(i) ==
    <<pc[i], delivered[i], wsBuf[i], copied[i], rmdirTask[i]>>'
        # <<pc[i], delivered[i], wsBuf[i], copied[i], rmdirTask[i]>>

\* C17, states: two invocations that hold a temporary directory at the same
\* time hold different ones, so their staged file paths (directory plus the
\* same base filename of the shared opts.dest) differ.
C17_DistinctTempDirs ==
    \A i, j \in Invocations :
        (i # j /\ HoldsTempDir(i) /\ HoldsTempDir(j)) => tempDir[i] # tempDir[j]

\* C17, steps: whenever a temporary directory or the file in it is created,
\* written, moved away or removed, the step is one of the invocation whose
\* directory it is, and no other invocation holds that directory.
C17_OwnTempDirOnly ==
    \A d \in TempNames :
        tmp'[d] # tmp[d] =>
            \E i \in Invocations :
                /\ StepOf(i) /\ tempDir'[i] = d
                /\ \A j \in Invocations \ {i} : HoldsTempDir(j) => tempDir[j] # d

\* C17: under every interleaving of two concurrent downloads with the same
\* opts.dest their temporary directories and staged paths are distinct and
\* neither writes, moves or removes a file in the other's directory.
C17_IsolatedTempDirs == []C17_DistinctTempDirs /\ [][C17_OwnTempDirOnly]_vars

\* C17 witness: both downloads are streaming at the same time, each with a
\* partly written staged file in its own directory.
C17_Witness ==
    /\ pc[1] = "pipeline" /\ pc[2] = "pipeline"
    /\ tempDir[1] # tempDir[2]
    /\ TempFile(1).data = <<"a">> /\ TempFile(2).data = <<"b", "a">>

\* C20, states: opts.dest is as it was before the downloads or holds the
\* complete staged file of one of them.
C20_DestOriginalOrComplete ==
    \/ destFile = destBefore
    \/ \E i \in Invocations : moveCalled[i] /\ destFile = File(staged[i])

\* C20, steps: when the rename of an invocation succeeds, or its copy of the
\* staged file resolves, opts.dest holds that invocation's complete staged file.
C20_PlacedWhenMoved ==
    \A i \in Invocations :
        (pc[i] \in {"rename", "copyWrite"} /\ pc'[i] \in {"finally", "unlink"}
            /\ scopeErr'[i] = NoError)
        => destFile' = File(staged[i])

\* C20 as stated: with two concurrent downloads to the same opts.dest, under
\* every interleaving of their placement steps opts.dest is at every moment
\* in its original state or holds the complete content of exactly one download,
\* and every invocation that resolves had its staged file fully placed (the
\* copy fallback of moveFile violates it).
C20_ConcurrentPlacement ==
    []C20_DestOriginalOrComplete /\ [][C20_PlacedWhenMoved]_vars

====
